---- MODULE Spec2Model ----
(***************************************************************************)
(* HRMS Lite backend: the employee directory and the attendance ledger.    *)
(*                                                                         *)
(* The store is the two tables of app/models (employees, attendance) with  *)
(* their declared constraints.  Every request is served by a worker with   *)
(* its own session; a request advances one store statement (query, commit, *)
(* refresh, lazy load) at a time, and statements of different requests     *)
(* interleave freely.                                                      *)
(*                                                                         *)
(* Strings that the code case-normalises (employee code, email) are        *)
(* sequences of one-character strings, so that upper() and lower() are     *)
(* computed character by character.  An Optional value is a sequence of    *)
(* length at most one: << >> is None, <<v>> is v.                          *)
(***************************************************************************)
EXTENDS Integers, Sequences, FiniteSets, TLC

\* ---------------------------------------------------------------- bounds
MaxEmployees == 2        \* employee rows ever inserted
NumDates == 2            \* calendar dates 1..NumDates
MaxAttendance == 2       \* attendance rows ever inserted
MaxReaders == 1          \* read-only requests in flight at once

Procs == {"w1", "w2"}    \* concurrent request workers
Dates == 1..NumDates
EmployeeIds == 1..MaxEmployees
None == << >>
Some(v) == <<v>>
\* (start_date, end_date) of the list requests: unbounded, bounded on one side,
\* a closed interval
FilterInputs == { <<None, None>>, <<Some(NumDates), None>>, <<None, Some(1)>>,
                  <<Some(1), Some(NumDates)>> }

\* ---------------------------------------------------------------- inputs
CodeInputs == { <<"e", "1">>, <<"E", "1">>, <<"f", "1">> }
EmailInputs == { <<"A", "@", "x">>, <<"a", "@", "x">>, <<"b", "@", "x">> }
NameInputs == {"Ann"}
DepartmentInputs == {"Eng"}

\* AttendanceStatus / AttendanceStatusEnum
PRESENT == "present"
ABSENT == "absent"
AttendanceStatus == {PRESENT, ABSENT}

\* ------------------------------------------------------- str.upper/lower
LowerLetters == <<"a", "b", "e", "f", "x">>
UpperLetters == <<"A", "B", "E", "F", "X">>

UpperChar(c) ==
    IF \E i \in DOMAIN LowerLetters : LowerLetters[i] = c
    THEN UpperLetters[CHOOSE i \in DOMAIN LowerLetters : LowerLetters[i] = c]
    ELSE c

LowerChar(c) ==
    IF \E i \in DOMAIN UpperLetters : UpperLetters[i] = c
    THEN LowerLetters[CHOOSE i \in DOMAIN UpperLetters : UpperLetters[i] = c]
    ELSE c

Upper(s) == [i \in DOMAIN s |-> UpperChar(s[i])]
Lower(s) == [i \in DOMAIN s |-> LowerChar(s[i])]

\* ------------------------------------------------------------------ state
VARIABLES
    employees,      \* table employees: set of rows
    attendance,     \* table attendance: set of rows
    nextEmployeeId, \* next fresh Employee.id (uuid4)
    nextAttendanceId, \* next fresh Attendance.id (uuid4)
    pc,             \* per worker: the statement its request executes next
    args,           \* per worker: the arguments of its request
    loc,            \* per worker: the locals of the handler
    result          \* per worker: the response of its finished request

vars == <<employees, attendance, nextEmployeeId, nextAttendanceId, pc, args, loc, result>>

NoArgs == [op |-> "none"]
NoLoc == [existing |-> 0]
NoResult == [kind |-> "none"]

Init ==
    /\ employees = {}
    /\ attendance = {}
    /\ nextEmployeeId = 1
    /\ nextAttendanceId = 1
    /\ pc = [p \in Procs |-> "idle"]
    /\ args = [p \in Procs |-> NoArgs]
    /\ loc = [p \in Procs |-> NoLoc]
    /\ result = [p \in Procs |-> NoResult]

\* ------------------------------------------------------- store primitives
\* db.query(Employee).filter(Employee.id == id).first()
EmployeeById(id) == {e \in employees : e.id = id}

\* (variant: email declared without unique=True)
EmployeeUniqueViolationCodeOnly(code, email) ==
    \E e \in employees : e.employee_id = code

\* Employee.employee_id: unique=True ; Employee.email: unique=True
EmployeeUniqueViolation(code, email) ==
    \E e \in employees : e.employee_id = code \/ e.email = email

\* (variant: no UniqueConstraint in __table_args__)
NoUniqueEmployeeDate(emp, d) == FALSE

\* UniqueConstraint("employee_id", "date")
AttendanceUniqueViolation(emp, d) ==
    \E a \in attendance : a.employee_id = emp /\ a.date = d

\* The store enforces the declared foreign keys.
StoreEnforcesForeignKeys == TRUE

\* (variant: employee_id declared without ForeignKey)
NoForeignKey(emp) == FALSE

\* ForeignKey("employees.id", ondelete="CASCADE"), on insert
ForeignKeyViolation(emp) ==
    StoreEnforcesForeignKeys /\ EmployeeById(emp) = {}

\* ForeignKey("employees.id", ondelete="CASCADE"), on delete of the parent row
OnDeleteCascade(emp) ==
    IF StoreEnforcesForeignKeys /\ EmployeeById(emp) # {}
    THEN {a \in attendance : a.employee_id = emp}
    ELSE {}

\* db.query(func.count(Attendance.id)).filter(employee_id == emp [, status == s])
CountAll(emp) == Cardinality({a \in attendance : a.employee_id = emp})
CountStatus(emp, s) ==
    Cardinality({a \in attendance : a.employee_id = emp /\ a.status = s})

\* ------------------------------------------------------------ bookkeeping
Finish(p, r) ==
    /\ pc' = [pc EXCEPT ![p] = "done"]
    /\ result' = [result EXCEPT ![p] = r]
    /\ loc' = [loc EXCEPT ![p] = NoLoc]

Goto(p, label) ==
    /\ pc' = [pc EXCEPT ![p] = label]
    /\ UNCHANGED result

InFlight(op) == Cardinality({q \in Procs : args[q].op = op /\ pc[q] # "done"})

ReadOps == {"get_employee", "get_attendance_by_employee", "get_attendance_stats",
            "get_today_attendance_count"}
Readers == Cardinality({q \in Procs : args[q].op \in ReadOps /\ pc[q] # "done"})

\* A response is delivered as soon as its request finishes, before any other
\* statement runs: delivery touches nothing another request can see.
Responding == \E q \in Procs : pc[q] = "done"

\* Worker p is about to execute the statement at label
At(p, label) == ~Responding /\ pc[p] = label

\* A request arrives at an idle worker
Call(p, a) ==
    /\ At(p, "idle")
    /\ args' = [args EXCEPT ![p] = a]

StoreUnchanged == UNCHANGED <<employees, attendance, nextEmployeeId, nextAttendanceId>>

\* The response has been delivered; the worker takes the next request.
Return(p) ==
    /\ pc[p] = "done"
    /\ pc' = [pc EXCEPT ![p] = "idle"]
    /\ args' = [args EXCEPT ![p] = NoArgs]
    /\ result' = [result EXCEPT ![p] = NoResult]
    /\ UNCHANGED <<employees, attendance, nextEmployeeId, nextAttendanceId, loc>>

\* ------------------------------------------------- POST /api/employees
\* (variant: the lookup compares the code as given, without upper())
GetEmployeeByEmployeeIdAsGiven(employee_id) ==
    {e \in employees : e.employee_id = employee_id}

\* get_employee_by_employee_id(employee_id)
GetEmployeeByEmployeeId(employee_id) ==
    {e \in employees : e.employee_id = Upper(employee_id)}

\* get_employee_by_email(email)
GetEmployeeByEmail(email) ==
    {e \in employees : e.email = Lower(email)}

CreateEmployeeCheckCode(p) ==
    /\ nextEmployeeId + InFlight("create_employee") <= MaxEmployees
    /\ \E c \in CodeInputs, n \in NameInputs, m \in EmailInputs, d \in DepartmentInputs :
       LET a == [op |-> "create_employee", employee_id |-> c, full_name |-> n, email |-> m, department |-> d] IN
       /\ Call(p, a)
       /\ IF GetEmployeeByEmployeeId(a.employee_id) # {}
          THEN Finish(p, [kind |-> "conflict"])
          ELSE Goto(p, "ce_by_email") /\ UNCHANGED loc
       /\ StoreUnchanged

CreateEmployeeCheckEmail(p) ==
    /\ At(p, "ce_by_email")
    /\ IF GetEmployeeByEmail(args[p].email) # {}
       THEN Finish(p, [kind |-> "conflict"])
       ELSE Goto(p, "ce_commit") /\ UNCHANGED loc
    /\ UNCHANGED args
    /\ StoreUnchanged

\* (variant: the email is stored as given, without lower())
NewEmployeeEmailAsGiven(id, a) ==
    [id |-> id, employee_id |-> Upper(a.employee_id), full_name |-> a.full_name,
     email |-> a.email, department |-> a.department]

\* Employee(employee_id=employee_id.upper(), ..., email=email.lower(), ...)
NewEmployee(id, a) ==
    [id |-> id, employee_id |-> Upper(a.employee_id), full_name |-> a.full_name,
     email |-> Lower(a.email), department |-> a.department]

\* db.add(employee); db.commit()  /  except IntegrityError: rollback, 409
CreateEmployeeCommit(p) ==
    /\ At(p, "ce_commit")
    /\ LET row == NewEmployee(nextEmployeeId, args[p]) IN
       IF EmployeeUniqueViolation(row.employee_id, row.email)
       THEN /\ Finish(p, [kind |-> "conflict"])
            /\ UNCHANGED <<employees, nextEmployeeId>>
       ELSE /\ employees' = employees \cup {row}
            /\ nextEmployeeId' = nextEmployeeId + 1
            /\ loc' = [loc EXCEPT ![p] = [existing |-> 0, employee |-> row.id]]
            /\ Goto(p, "ce_refresh")
    /\ UNCHANGED <<attendance, nextAttendanceId, args>>

\* EmployeeResponse(id=employee.id, ..., present_days=0, absent_days=0)
EmployeeResponse(e, present, absent) ==
    [kind |-> "ok", id |-> e.id, employee_id |-> e.employee_id, full_name |-> e.full_name,
     email |-> e.email, department |-> e.department,
     present_days |-> present, absent_days |-> absent]

\* db.refresh(employee); return employee  (the row may be gone by now)
CreateEmployeeRefresh(p) ==
    /\ At(p, "ce_refresh")
    /\ LET rows == EmployeeById(loc[p].employee) IN
       IF rows = {}
       THEN Finish(p, [kind |-> "unexpected"])
       ELSE Finish(p, EmployeeResponse(CHOOSE e \in rows : TRUE, 0, 0))
    /\ UNCHANGED args
    /\ StoreUnchanged

\* ------------------------------------------- DELETE /api/employees/{id}
\* employee = self.get_employee_by_id(employee_uuid); if not employee: 404
DeleteEmployeeGet(p) ==
    /\ \E id \in EmployeeIds :
       LET a == [op |-> "delete_employee", employee_uuid |-> id] IN
       /\ Call(p, a)
       /\ IF EmployeeById(a.employee_uuid) = {}
          THEN Finish(p, [kind |-> "not_found"])
          ELSE Goto(p, "de_delete") /\ UNCHANGED loc
       /\ StoreUnchanged

\* relationship("Attendance", cascade="all, delete-orphan"): db.delete(employee)
\* loads employee.attendance_records to mark every child for deletion
AttendanceRecords(emp) == {a.id : a \in {b \in attendance : b.employee_id = emp}}

DeleteEmployeeCascade(p) ==
    /\ At(p, "de_delete")
    /\ loc' = [loc EXCEPT ![p] = [existing |-> 0,
                                  children |-> AttendanceRecords(args[p].employee_uuid)]]
    /\ Goto(p, "de_commit")
    /\ UNCHANGED args
    /\ StoreUnchanged

\* (variant: the commit deletes the loaded children but not the employee row)
DeleteEmployeeCommitChildrenOnly(p) ==
    /\ At(p, "de_commit")
    /\ attendance' = {a \in attendance : a.id \notin loc[p].children}
    /\ Finish(p, [kind |-> "ok", success |-> TRUE])
    /\ UNCHANGED <<employees, nextEmployeeId, nextAttendanceId, args>>

\* db.commit(): DELETE the loaded children by id, DELETE the employee row (rows
\* already gone only warn); the store cascades to every remaining child row
DeleteEmployeeCommit(p) ==
    /\ At(p, "de_commit")
    /\ LET emp == args[p].employee_uuid IN
       /\ attendance' = {a \in attendance :
                            a.id \notin loc[p].children /\ a \notin OnDeleteCascade(emp)}
       /\ employees' = {e \in employees : e.id # emp}
    /\ Finish(p, [kind |-> "ok", success |-> TRUE])
    /\ UNCHANGED <<nextEmployeeId, nextAttendanceId, args>>

\* ------------------------------------------------ POST /api/attendance
\* employee = db.query(Employee).filter(Employee.id == employee_id).first()
MarkAttendanceEmployee(p) ==
    /\ nextAttendanceId + InFlight("mark_attendance") <= MaxAttendance
    /\ \E id \in EmployeeIds, d \in Dates, s \in AttendanceStatus :
       LET a == [op |-> "mark_attendance", employee_id |-> id, attendance_date |-> d, status_value |-> s] IN
       /\ Call(p, a)
       /\ IF EmployeeById(a.employee_id) = {}
          THEN Finish(p, [kind |-> "not_found"])
          ELSE Goto(p, "ma_existing") /\ UNCHANGED loc
       /\ StoreUnchanged

\* existing = db.query(Attendance).filter(employee_id ==, date ==).first()
ExistingAttendance(emp, d) ==
    {a \in attendance : a.employee_id = emp /\ a.date = d}

\* (variant: the lookup filters on the employee alone, not on the date)
MarkAttendanceExistingAnyDate(p) ==
    /\ At(p, "ma_existing")
    /\ LET rows == {a \in attendance : a.employee_id = args[p].employee_id} IN
       IF rows # {}
       THEN /\ \E a \in rows : loc' = [loc EXCEPT ![p] = [existing |-> a.id, attendance |-> 0]]
            /\ Goto(p, "ma_update")
       ELSE /\ Goto(p, "ma_insert")
            /\ UNCHANGED loc
    /\ UNCHANGED args
    /\ StoreUnchanged

MarkAttendanceExisting(p) ==
    /\ At(p, "ma_existing")
    /\ LET rows == ExistingAttendance(args[p].employee_id, args[p].attendance_date) IN
       IF rows # {}
       THEN /\ \E a \in rows : loc' = [loc EXCEPT ![p] = [existing |-> a.id, attendance |-> 0]]
            /\ Goto(p, "ma_update")
       ELSE /\ Goto(p, "ma_insert")
            /\ UNCHANGED loc
    /\ UNCHANGED args
    /\ StoreUnchanged

\* (variant: the assignment to existing.status is never committed)
MarkAttendanceUpdateNotCommitted(p) ==
    /\ At(p, "ma_update")
    /\ IF \E a \in attendance : a.id = loc[p].existing
       THEN Goto(p, "ma_refresh") /\ UNCHANGED loc
       ELSE Finish(p, [kind |-> "unexpected"])
    /\ UNCHANGED <<employees, attendance, nextEmployeeId, nextAttendanceId, args>>

\* existing.status = status_value; db.commit()
\* (a row deleted meanwhile: StaleDataError, not caught by the handler; when the
\* status is unchanged no UPDATE is sent and the refresh that follows fails instead)
MarkAttendanceUpdate(p) ==
    /\ At(p, "ma_update")
    /\ IF \E a \in attendance : a.id = loc[p].existing
       THEN /\ attendance' = {IF a.id = loc[p].existing
                              THEN [a EXCEPT !.status = args[p].status_value]
                              ELSE a : a \in attendance}
            /\ Goto(p, "ma_refresh")
            /\ UNCHANGED loc
       ELSE /\ Finish(p, [kind |-> "unexpected"])
            /\ UNCHANGED attendance
    /\ UNCHANGED <<employees, nextEmployeeId, nextAttendanceId, args>>

\* Attendance(employee_id=employee_id, date=attendance_date, status=status_value)
NewAttendance(id, a) ==
    [id |-> id, employee_id |-> a.employee_id, date |-> a.attendance_date,
     status |-> a.status_value]

\* (variant: the IntegrityError is caught and swallowed, the record returned)
MarkAttendanceInsertSwallowed(p) ==
    /\ At(p, "ma_insert")
    /\ LET row == [id |-> nextAttendanceId, employee_id |-> args[p].employee_id,
                   date |-> args[p].attendance_date, status |-> args[p].status_value] IN
       IF \/ ForeignKeyViolation(row.employee_id)
          \/ AttendanceUniqueViolation(row.employee_id, row.date)
       THEN /\ Finish(p, [kind |-> "ok", record |-> row])
            /\ UNCHANGED <<attendance, nextAttendanceId>>
       ELSE /\ attendance' = attendance \cup {row}
            /\ nextAttendanceId' = nextAttendanceId + 1
            /\ loc' = [loc EXCEPT ![p] = [existing |-> 0, attendance |-> row.id]]
            /\ Goto(p, "ma_refresh")
    /\ UNCHANGED <<employees, nextEmployeeId, args>>

\* (variant: no except IntegrityError around the insert)
MarkAttendanceInsertUncaught(p) ==
    /\ At(p, "ma_insert")
    /\ LET row == NewAttendance(nextAttendanceId, args[p]) IN
       IF \/ ForeignKeyViolation(row.employee_id)
          \/ AttendanceUniqueViolation(row.employee_id, row.date)
       THEN /\ Finish(p, [kind |-> "unexpected"])
            /\ UNCHANGED <<attendance, nextAttendanceId>>
       ELSE /\ attendance' = attendance \cup {row}
            /\ nextAttendanceId' = nextAttendanceId + 1
            /\ loc' = [loc EXCEPT ![p] = [existing |-> 0, attendance |-> row.id]]
            /\ Goto(p, "ma_refresh")
    /\ UNCHANGED <<employees, nextEmployeeId, args>>

\* db.add(attendance); db.commit()  /  except IntegrityError: rollback, 409
MarkAttendanceInsert(p) ==
    /\ At(p, "ma_insert")
    /\ LET row == NewAttendance(nextAttendanceId, args[p]) IN
       IF \/ ForeignKeyViolation(row.employee_id)
          \/ AttendanceUniqueViolation(row.employee_id, row.date)
       THEN /\ Finish(p, [kind |-> "conflict"])
            /\ UNCHANGED <<attendance, nextAttendanceId>>
       ELSE /\ attendance' = attendance \cup {row}
            /\ nextAttendanceId' = nextAttendanceId + 1
            /\ loc' = [loc EXCEPT ![p] = [existing |-> 0, attendance |-> row.id]]
            /\ Goto(p, "ma_refresh")
    /\ UNCHANGED <<employees, nextEmployeeId, args>>

\* db.refresh(existing) / db.refresh(attendance)
\* (a row deleted meanwhile: InvalidRequestError, not caught by the handler)
MarkAttendanceRefresh(p) ==
    /\ At(p, "ma_refresh")
    /\ LET id == IF loc[p].existing # 0 THEN loc[p].existing ELSE loc[p].attendance
           rows == {a \in attendance : a.id = id}
       IN
       IF rows = {}
       THEN Finish(p, [kind |-> "unexpected"])
       ELSE /\ loc' = [loc EXCEPT ![p] = [existing |-> loc[p].existing,
                                          attendance |-> loc[p].attendance,
                                          record |-> CHOOSE a \in rows : TRUE]]
            /\ Goto(p, "ma_format")
    /\ UNCHANGED args
    /\ StoreUnchanged

\* _format_record(record): record.employee is loaded on access
FormatRecord(record) ==
    LET owner == EmployeeById(record.employee_id) IN
    [id |-> record.id, employee_id |-> record.employee_id,
     employee_name |-> IF owner # {} THEN Some((CHOOSE e \in owner : TRUE).full_name) ELSE None,
     employee_code |-> IF owner # {} THEN Some((CHOOSE e \in owner : TRUE).employee_id) ELSE None,
     date |-> record.date, status |-> record.status]

\* return self._format_record(record)
MarkAttendanceFormat(p) ==
    /\ At(p, "ma_format")
    /\ Finish(p, [kind |-> "ok", record |-> FormatRecord(loc[p].record)])
    /\ UNCHANGED args
    /\ StoreUnchanged

\* --------------------------------------------- GET /api/employees/{id}
\* emp = db.query(Employee).filter(Employee.id == employee_uuid).first()
\* (None from the service: the endpoint raises 404)
GetEmployeeLookup(p) ==
    /\ Readers < MaxReaders
    /\ \E id \in EmployeeIds :
       LET a == [op |-> "get_employee", employee_uuid |-> id] IN
       /\ Call(p, a)
       /\ LET rows == EmployeeById(a.employee_uuid) IN
          IF rows = {}
          THEN Finish(p, [kind |-> "not_found"])
          ELSE /\ loc' = [loc EXCEPT ![p] = [existing |-> 0, emp |-> CHOOSE e \in rows : TRUE]]
               /\ Goto(p, "ge_present")
       /\ StoreUnchanged

GetEmployeePresent(p) ==
    /\ At(p, "ge_present")
    /\ loc' = [loc EXCEPT ![p] = [existing |-> 0, emp |-> loc[p].emp,
                                  present_days |-> CountStatus(loc[p].emp.id, PRESENT)]]
    /\ Goto(p, "ge_absent")
    /\ UNCHANGED args
    /\ StoreUnchanged

GetEmployeeAbsent(p) ==
    /\ At(p, "ge_absent")
    /\ Finish(p, EmployeeResponse(loc[p].emp, loc[p].present_days,
                                  CountStatus(loc[p].emp.id, ABSENT)))
    /\ UNCHANGED args
    /\ StoreUnchanged

\* --------------------------------------------------- GET /api/attendance
\* if start_date: filter(date >= start_date) ; if end_date: filter(date <= end_date)
DateFilter(rows, start_date, end_date) ==
    {a \in rows : /\ (start_date # None => a.date >= start_date[1])
                  /\ (end_date # None => a.date <= end_date[1])}

\* order_by(Attendance.date.desc()); rows of one date come in an order the store picks
RECURSIVE OrderByDateDesc(_)
OrderByDateDesc(rows) ==
    IF rows = {} THEN << >>
    ELSE LET first == CHOOSE a \in rows : \A b \in rows : b.date <= a.date
         IN <<first>> \o OrderByDateDesc(rows \ {first})

\* [self._format_record(record) for record in records], employee joined in the query
FormatRecords(rows) ==
    LET ordered == OrderByDateDesc(rows)
    IN [i \in DOMAIN ordered |-> FormatRecord(ordered[i])]

GetAllAttendance(p) ==
    /\ \E f \in FilterInputs :
       LET a == [op |-> "get_all_attendance", start_date |-> f[1], end_date |-> f[2]] IN
       /\ Call(p, a)
       /\ Finish(p, [kind |-> "ok",
                     records |-> FormatRecords(
                         DateFilter(attendance, a.start_date, a.end_date))])
       /\ StoreUnchanged

\* ----------------------------------- GET /api/attendance/employee/{id}
\* (variant: the ledger is queried directly, without verifying the employee)
GetAttendanceByEmployeeLookupNoCheck(p) ==
    /\ Readers < MaxReaders
    /\ \E id \in EmployeeIds, f \in FilterInputs :
       LET a == [op |-> "get_attendance_by_employee", employee_uuid |-> id, start_date |-> f[1], end_date |-> f[2]] IN
       /\ Call(p, a)
       /\ Goto(p, "le_query") /\ UNCHANGED loc
       /\ StoreUnchanged

\* employee = db.query(Employee).filter(Employee.id == employee_uuid).first(); 404
GetAttendanceByEmployeeLookup(p) ==
    /\ Readers < MaxReaders
    /\ \E id \in EmployeeIds, f \in FilterInputs :
       LET a == [op |-> "get_attendance_by_employee", employee_uuid |-> id, start_date |-> f[1], end_date |-> f[2]] IN
       /\ Call(p, a)
       /\ IF EmployeeById(a.employee_uuid) = {}
          THEN Finish(p, [kind |-> "not_found"])
          ELSE Goto(p, "le_query") /\ UNCHANGED loc
       /\ StoreUnchanged

GetAttendanceByEmployeeQuery(p) ==
    /\ At(p, "le_query")
    /\ Finish(p, [kind |-> "ok",
                  records |-> FormatRecords(
                      DateFilter({a \in attendance : a.employee_id = args[p].employee_uuid},
                                 args[p].start_date, args[p].end_date))])
    /\ UNCHANGED args
    /\ StoreUnchanged

\* -------------------------------------- GET /api/attendance/stats/{id}
GetAttendanceStatsLookup(p) ==
    /\ Readers < MaxReaders
    /\ \E id \in EmployeeIds :
       LET a == [op |-> "get_attendance_stats", employee_uuid |-> id] IN
       /\ Call(p, a)
       /\ IF EmployeeById(a.employee_uuid) = {}
          THEN Finish(p, [kind |-> "not_found"])
          ELSE Goto(p, "st_total") /\ UNCHANGED loc
       /\ StoreUnchanged

\* total_records = db.query(func.count(Attendance.id)).filter(employee_id ==).scalar() or 0
GetAttendanceStatsTotal(p) ==
    /\ At(p, "st_total")
    /\ loc' = [loc EXCEPT ![p] = [existing |-> 0,
                                  total_records |-> CountAll(args[p].employee_uuid)]]
    /\ Goto(p, "st_present")
    /\ UNCHANGED args
    /\ StoreUnchanged

GetAttendanceStatsPresent(p) ==
    /\ At(p, "st_present")
    /\ loc' = [loc EXCEPT ![p] = [existing |-> 0,
                                  total_records |-> loc[p].total_records,
                                  present_count |-> CountStatus(args[p].employee_uuid, PRESENT)]]
    /\ Goto(p, "st_absent")
    /\ UNCHANGED args
    /\ StoreUnchanged

\* round(x, 2) of the quotient num/den, as a whole number of hundredths
\* (ties go to the even hundredth)
Round2(num, den) ==
    LET scaled == num * 100
        q == scaled \div den
        r == scaled % den
    IN IF 2 * r > den \/ (2 * r = den /\ q % 2 = 1) THEN q + 1 ELSE q

\* (present_count / total_records * 100) if total_records > 0 else 0.0, rounded
AttendancePercentage(present_count, total_records) ==
    IF total_records > 0 THEN Round2(present_count * 100, total_records) ELSE 0

GetAttendanceStatsAbsent(p) ==
    /\ At(p, "st_absent")
    /\ Finish(p, [kind |-> "ok", employee_id |-> args[p].employee_uuid,
                  total_days |-> loc[p].total_records,
                  present_days |-> loc[p].present_count,
                  absent_days |-> CountStatus(args[p].employee_uuid, ABSENT),
                  attendance_percentage |->
                      AttendancePercentage(loc[p].present_count, loc[p].total_records)])
    /\ UNCHANGED args
    /\ StoreUnchanged

\* ---------------------------------------------------- GET /api/dashboard
\* today = date.today(); total_employees = db.query(func.count(Employee.id)).scalar() or 0
GetTodayAttendanceCountTotal(p) ==
    /\ Readers < MaxReaders
    /\ \E today \in Dates :
       LET a == [op |-> "get_today_attendance_count", today |-> today] IN
       /\ Call(p, a)
       /\ loc' = [loc EXCEPT ![p] = [existing |-> 0,
                                     total_employees |-> Cardinality(employees)]]
       /\ Goto(p, "td_present")
       /\ StoreUnchanged

\* db.query(func.count(Attendance.id)).filter(date == today, status == s)
CountToday(today, s) ==
    Cardinality({a \in attendance : a.date = today /\ a.status = s})

GetTodayAttendanceCountPresent(p) ==
    /\ At(p, "td_present")
    /\ loc' = [loc EXCEPT ![p] = [existing |-> 0,
                                  total_employees |-> loc[p].total_employees,
                                  present_today |-> CountToday(args[p].today, PRESENT)]]
    /\ Goto(p, "td_absent")
    /\ UNCHANGED args
    /\ StoreUnchanged

\* round((present_today / total_employees * 100) if total_employees > 0 else 0, 2)
AttendanceRate(present_today, total_employees) ==
    IF total_employees > 0 THEN Round2(present_today * 100, total_employees) ELSE 0

GetTodayAttendanceCountAbsent(p) ==
    /\ At(p, "td_absent")
    /\ LET absent_today == CountToday(args[p].today, ABSENT)
           marked_today == loc[p].present_today + absent_today
       IN Finish(p, [kind |-> "ok",
                     total_employees |-> loc[p].total_employees,
                     marked_today |-> marked_today,
                     present_today |-> loc[p].present_today,
                     absent_today |-> absent_today,
                     unmarked_today |-> loc[p].total_employees - marked_today,
                     attendance_rate |->
                         AttendanceRate(loc[p].present_today, loc[p].total_employees)])
    /\ UNCHANGED args
    /\ StoreUnchanged

Next ==
    \E p \in Procs :
        \/ Return(p)
        \/ CreateEmployeeCheckCode(p)
        \/ CreateEmployeeCheckEmail(p)
        \/ CreateEmployeeCommit(p)
        \/ CreateEmployeeRefresh(p)
        \/ DeleteEmployeeGet(p)
        \/ DeleteEmployeeCascade(p)
        \/ DeleteEmployeeCommit(p)
        \/ MarkAttendanceEmployee(p)
        \/ MarkAttendanceExisting(p)
        \/ MarkAttendanceUpdate(p)
        \/ MarkAttendanceInsert(p)
        \/ MarkAttendanceRefresh(p)
        \/ MarkAttendanceFormat(p)
        \/ GetEmployeeLookup(p)
        \/ GetEmployeePresent(p)
        \/ GetEmployeeAbsent(p)
        \/ GetAllAttendance(p)
        \/ GetAttendanceByEmployeeLookup(p)
        \/ GetAttendanceByEmployeeQuery(p)
        \/ GetAttendanceStatsLookup(p)
        \/ GetAttendanceStatsTotal(p)
        \/ GetAttendanceStatsPresent(p)
        \/ GetAttendanceStatsAbsent(p)
        \/ GetTodayAttendanceCountTotal(p)
        \/ GetTodayAttendanceCountPresent(p)
        \/ GetTodayAttendanceCountAbsent(p)

Spec == Init /\ [][Next]_vars

\* ====================================================================
\* Properties
\* ====================================================================
Done(p, op) == pc[p] = "done" /\ args[p].op = op
Ok(p, op) == Done(p, op) /\ result[p].kind = "ok"
Mark(p) == args[p].op = "mark_attendance"
SameKey(p, q) ==
    /\ args[p].employee_id = args[q].employee_id
    /\ args[p].attendance_date = args[q].attendance_date
RecordsOf(emp, d) == {a \in attendance : a.employee_id = emp /\ a.date = d}

\* C1: the attendance table never holds two records for one (employee, date)
\* pair, whatever the interleaving of creates, marks and deletes.
C1_OneRecordPerEmployeeDate ==
    \A a, b \in attendance :
        (a.employee_id = b.employee_id /\ a.date = b.date) => a = b

\* C1 witness: two marks for one key raced; one inserted the record (and is still
\* running), the other was refused.
C1_Witness ==
    \E p, q \in Procs :
        /\ Done(p, "mark_attendance") /\ result[p].kind = "conflict"
        /\ Mark(q) /\ pc[q] = "ma_refresh" /\ loc[q].attendance # 0
        /\ SameKey(p, q)
        /\ \E a \in attendance : a.id = loc[q].attendance

\* C2: a mark that finds a record for its (employee, date) takes the update
\* path, and its update leaves exactly one record for that pair, the same row,
\* carrying the status just written; no row is added and no error is signalled.
C2_SecondMarkOverwrites ==
    [][\A p \in Procs :
        /\ ( /\ Mark(p) /\ pc[p] = "ma_existing" /\ pc'[p] # "ma_existing"
             /\ RecordsOf(args[p].employee_id, args[p].attendance_date) # {} )
           => /\ pc'[p] = "ma_update"
              /\ \E a \in RecordsOf(args[p].employee_id, args[p].attendance_date) :
                    loc'[p].existing = a.id
        /\ ( /\ Mark(p) /\ pc[p] = "ma_update" /\ pc'[p] # "ma_update"
             /\ \E a \in attendance : a.id = loc[p].existing )
           => /\ pc'[p] = "ma_refresh"
              /\ Cardinality(attendance') = Cardinality(attendance)
              /\ \E a \in attendance' :
                    /\ a.id = loc[p].existing
                    /\ a.status = args[p].status_value
                    /\ {b \in attendance' : b.employee_id = a.employee_id /\ b.date = a.date}
                          = {a}
                    /\ attendance' \ {a} = {b \in attendance : b.id # a.id}
    ]_vars

\* C2 witness: the record inserted by one mark (still running, status s1) has been
\* overwritten by a second mark for the same key with another status s2.
C2_Witness ==
    \E p, q \in Procs :
        /\ Mark(q) /\ pc[q] = "ma_refresh" /\ loc[q].attendance # 0
        /\ Mark(p) /\ pc[p] = "ma_refresh" /\ loc[p].existing = loc[q].attendance
        /\ args[p].status_value # args[q].status_value
        /\ \E a \in attendance : a.id = loc[p].existing /\ a.status = args[p].status_value

\* C3: an insert that hits an existing record for its (employee, date) rolls back
\* and answers Conflict, and the store keeps exactly the one record already there.
C3_RacingInsertConflicts ==
    [][\A p \in Procs :
        ( /\ Mark(p) /\ pc[p] = "ma_insert" /\ pc'[p] # "ma_insert"
          /\ RecordsOf(args[p].employee_id, args[p].attendance_date) # {} )
        => /\ pc'[p] = "done"
           /\ result'[p].kind = "conflict"
           /\ attendance' = attendance
           /\ Cardinality(RecordsOf(args[p].employee_id, args[p].attendance_date)) = 1
    ]_vars

\* C3 witness: both marks passed the existence check; one inserted, the other got
\* Conflict and the inserted record is the only one for the key.
C3_Witness ==
    \E p, q \in Procs :
        /\ Done(p, "mark_attendance") /\ result[p].kind = "conflict"
        /\ Mark(q) /\ pc[q] = "ma_refresh" /\ loc[q].attendance # 0
        /\ SameKey(p, q)
        /\ RecordsOf(args[p].employee_id, args[p].attendance_date)
              = {a \in attendance : a.id = loc[q].attendance}
        /\ Cardinality(RecordsOf(args[p].employee_id, args[p].attendance_date)) = 1

\* C4: no two employees share a stored code, and no two share a stored email.
C4_UniqueCodeAndEmail ==
    \A e, f \in employees :
        (e.employee_id = f.employee_id \/ e.email = f.email) => e = f

\* C4 witness: two creates with the same email both passed the pre-queries; one
\* has inserted its row and the other is about to commit.
C4_Witness ==
    \E p, q \in Procs :
        /\ p # q
        /\ args[p].op = "create_employee" /\ pc[p] = "ce_commit"
        /\ args[q].op = "create_employee" /\ pc[q] = "ce_refresh"
        /\ Lower(args[p].email) = Lower(args[q].email)
        /\ \E e \in employees : e.id = loc[q].employee /\ e.email = Lower(args[p].email)

DuplicateCode(a) == \E e \in employees : e.employee_id = Upper(a.employee_id)
DuplicateEmail(a) == \E e \in employees : e.email = Lower(a.email)
Conflicts(p) == pc'[p] = "done" /\ result'[p].kind = "conflict"

\* C5: a create whose upper-cased code or lower-cased email is already stored
\* answers Conflict, at the pre-query that looks for it and at the commit alike;
\* a create that answers Conflict adds no employee, and a create adds a row only
\* when neither value is stored yet.
C5_DuplicateCreateConflicts ==
    [][\A p \in Procs :
        (args'[p].op = "create_employee" /\ pc'[p] # pc[p]) =>
            /\ (pc[p] = "idle" /\ DuplicateCode(args'[p])) => Conflicts(p)
            /\ (pc[p] = "ce_by_email" /\ DuplicateEmail(args'[p])) => Conflicts(p)
            /\ ( /\ pc[p] = "ce_commit"
                 /\ (DuplicateCode(args'[p]) \/ DuplicateEmail(args'[p])) ) => Conflicts(p)
            /\ Conflicts(p) => employees' = employees
            /\ employees' # employees =>
                  /\ ~DuplicateCode(args'[p]) /\ ~DuplicateEmail(args'[p])
                  /\ Cardinality(employees') = Cardinality(employees) + 1
    ]_vars

\* C5 witness: a create was refused for a code that differs from a stored code
\* only in case.
C5_Witness ==
    \E p \in Procs :
        /\ Done(p, "create_employee") /\ result[p].kind = "conflict"
        /\ args[p].employee_id # Upper(args[p].employee_id)
        /\ \E e \in employees :
              /\ e.employee_id = Upper(args[p].employee_id)
              /\ e.email # Lower(args[p].email)

\* C6: a successful create returns, and the store holds, the code upper-cased and
\* the email lower-cased; the returned present and absent counts are zero.
C6_CreateNormalises ==
    \A p \in Procs :
        Ok(p, "create_employee") =>
            /\ result[p].employee_id = Upper(args[p].employee_id)
            /\ result[p].email = Lower(args[p].email)
            /\ result[p].present_days = 0
            /\ result[p].absent_days = 0
            /\ \E e \in employees :
                  /\ e.id = result[p].id
                  /\ e.employee_id = Upper(args[p].employee_id)
                  /\ e.email = Lower(args[p].email)

\* C6 witness: a create given a lower-case code and an upper-case email succeeded.
C6_Witness ==
    \E p \in Procs :
        /\ Ok(p, "create_employee")
        /\ args[p].employee_id # Upper(args[p].employee_id)
        /\ args[p].email # Lower(args[p].email)

\* Employee ids are never reused: an id already handed out with no row left is the
\* id of a deleted employee.
DeletedIds == {id \in 1..(nextEmployeeId - 1) : EmployeeById(id) = {}}
ByIdOps == {"get_employee", "delete_employee", "mark_attendance",
            "get_attendance_by_employee", "get_attendance_stats"}
IdArg(a) == IF a.op = "mark_attendance" THEN a.employee_id ELSE a.employee_uuid
ListOps == {"get_all_attendance", "get_attendance_by_employee"}

\* No record of a deleted employee is in the store or in a list result.
C7_NoRecordsAfterDelete ==
    \A id \in DeletedIds :
        /\ \A a \in attendance : a.employee_id # id
        /\ \A p \in Procs :
              (pc[p] = "done" /\ args[p].op \in ListOps /\ result[p].kind = "ok") =>
                  \A i \in DOMAIN result[p].records : result[p].records[i].employee_id # id

\* A by-id request that arrives after the delete answers NotFound.
C7_NotFoundAfterDelete ==
    [][\A p \in Procs :
        ( /\ pc[p] = "idle" /\ pc'[p] # "idle"
          /\ args'[p].op \in ByIdOps
          /\ IdArg(args'[p]) \in DeletedIds )
        => (pc'[p] = "done" /\ result'[p].kind = "not_found")
    ]_vars

\* C7: once an employee is deleted (a successful delete leaves its id deleted) the
\* store holds no attendance record of that employee, no list operation returns
\* one, and every later get, delete, mark, list-for-employee or stats call on that
\* id answers NotFound.
C7_DeleteRemovesEmployeeAndRecords ==
    /\ [](C7_NoRecordsAfterDelete)
    /\ [](\A p \in Procs : Ok(p, "delete_employee") => args[p].employee_uuid \in DeletedIds)
    /\ C7_NotFoundAfterDelete

\* C7 witness: a delete succeeded for an employee for whom a mark (still running)
\* had inserted a record; the record is gone.
C7_Witness ==
    \E p, q \in Procs :
        /\ Ok(p, "delete_employee")
        /\ Mark(q) /\ pc[q] = "ma_refresh" /\ loc[q].attendance # 0
        /\ args[q].employee_id = args[p].employee_uuid
        /\ attendance = {}

NameAndCode(r) == r.employee_name # None /\ r.employee_code # None

\* C8: every attendance record references an existing employee, and the employee
\* name and code joined onto any returned record are never null.
C8_RecordsAlwaysHaveTheirEmployee ==
    /\ \A a \in attendance : EmployeeById(a.employee_id) # {}
    /\ \A p \in Procs :
          /\ Ok(p, "mark_attendance") => NameAndCode(result[p].record)
          /\ (pc[p] = "done" /\ args[p].op \in ListOps /\ result[p].kind = "ok") =>
                \A i \in DOMAIN result[p].records : NameAndCode(result[p].records[i])

DatesMarked(emp) == {a.date : a \in {b \in attendance : b.employee_id = emp}}

\* C9: every statistics result has present_days + absent_days = total_days, and
\* total_days is the number of distinct dates marked for the employee.
C9_StatsCountsAgree ==
    \A p \in Procs :
        Ok(p, "get_attendance_stats") =>
            /\ result[p].present_days + result[p].absent_days = result[p].total_days
            /\ result[p].total_days = Cardinality(DatesMarked(args[p].employee_uuid))

\* n is a hundredth nearest to 10000*present/total:
\* |total*n - 10000*present| is at most total/2.
NearestHundredth(n, present, total) ==
    LET d == total * n - 10000 * present IN 2 * d <= total /\ -2 * d <= total

\* C10: attendance_percentage (in hundredths) is 0 when total_days is 0, otherwise
\* present/total*100 rounded to two decimals, and lies between 0 and 100.
C10_PercentageInRange ==
    \A p \in Procs :
        Ok(p, "get_attendance_stats") =>
            /\ result[p].total_days = 0 => result[p].attendance_percentage = 0
            /\ result[p].total_days > 0 =>
                  NearestHundredth(result[p].attendance_percentage,
                                   result[p].present_days, result[p].total_days)
            /\ result[p].attendance_percentage >= 0
            /\ result[p].attendance_percentage <= 10000

\* C11: every today's-summary result has marked_today = present_today +
\* absent_today and unmarked_today = total_employees - marked_today, and
\* unmarked_today is never negative.
C11_UnmarkedNeverNegative ==
    \A p \in Procs :
        Ok(p, "get_today_attendance_count") =>
            /\ result[p].marked_today = result[p].present_today + result[p].absent_today
            /\ result[p].unmarked_today = result[p].total_employees - result[p].marked_today
            /\ result[p].unmarked_today >= 0
            /\ result[p].marked_today <= result[p].total_employees

StoreTables == <<employees, attendance>>

\* C12: a get, delete, list-for-employee, mark or stats request that arrives when
\* no employee has its id answers NotFound at once and leaves both tables as they
\* were; in particular list-for-employee does not go on to return a list.
C12_UnknownEmployeeNotFound ==
    [][\A p \in Procs :
        ( /\ pc[p] = "idle" /\ pc'[p] # "idle"
          /\ args'[p].op \in ByIdOps
          /\ EmployeeById(IdArg(args'[p])) = {} )
        => /\ pc'[p] = "done"
           /\ result'[p].kind = "not_found"
           /\ StoreTables' = StoreTables
    ]_vars

\* C12 witness: list-for-employee answered NotFound for the id of a deleted
\* employee while another employee exists.
C12_Witness ==
    \E p \in Procs :
        /\ Done(p, "get_attendance_by_employee") /\ result[p].kind = "not_found"
        /\ args[p].employee_uuid \in DeletedIds
        /\ employees # {}

\* C13: a record that exists keeps its id, employee and date; it stays in the
\* table unless the same step deletes its owning employee; its status is always
\* present or absent, and the records a step adds start present or absent.
C13_RecordLifeCycle ==
    /\ [](\A a \in attendance : a.status \in AttendanceStatus)
    /\ [][\A a \in attendance :
            \/ \E b \in attendance' :
                  /\ b.id = a.id
                  /\ b.employee_id = a.employee_id
                  /\ b.date = a.date
            \/ /\ EmployeeById(a.employee_id) # {}
               /\ \A e \in employees' : e.id # a.employee_id
               /\ \A b \in attendance' : b.employee_id # a.employee_id
       ]_vars

\* C13 witness: a record inserted as present (its mark is still running) has been
\* overwritten to absent by a second mark.
C13_Witness ==
    \E p, q \in Procs :
        /\ Mark(q) /\ pc[q] \in {"ma_refresh", "ma_format"} /\ loc[q].attendance # 0
        /\ args[q].status_value = PRESENT
        /\ Mark(p) /\ pc[p] = "ma_format" /\ loc[p].existing = loc[q].attendance
        /\ \E a \in attendance : a.id = loc[p].existing /\ a.status = ABSENT

MutatingOps == {"create_employee", "mark_attendance", "delete_employee"}
Failure == {"not_found", "conflict"}
\* the statements of a mutating request that follow its commit
AfterCommit == {"ce_refresh", "ma_refresh", "ma_format"}

\* C14: a create, mark or delete that answers NotFound or Conflict has changed
\* nothing: the failing statement leaves both tables as they were and the request
\* committed nothing before it; a commit the store refuses is answered Conflict,
\* and a statement of the request that writes is never followed by a failure.
C14_FailureRollsBack ==
    [][\A p \in Procs :
        (args'[p].op \in MutatingOps /\ pc'[p] # pc[p]) =>
            /\ (pc'[p] = "done" /\ result'[p].kind \in Failure) =>
                  /\ StoreTables' = StoreTables
                  /\ pc[p] \notin AfterCommit
            /\ ( /\ pc[p] \in {"ma_insert", "ce_commit"}
                 /\ StoreTables' = StoreTables )
               => (pc'[p] = "done" /\ result'[p].kind = "conflict")
            /\ StoreTables' # StoreTables =>
                  \/ pc'[p] \in AfterCommit
                  \/ /\ args[p].op = "delete_employee"
                     /\ pc'[p] = "done" /\ result'[p].kind = "ok"
    ]_vars

\* C14 witness: a mark raced another mark for the same key with the other status,
\* its insert was refused and answered Conflict, and the stored record still has
\* the status the other mark wrote.
C14_Witness ==
    \E p \in Procs :
        /\ Done(p, "mark_attendance") /\ result[p].kind = "conflict"
        /\ EmployeeById(args[p].employee_id) # {}
        /\ \A a \in RecordsOf(args[p].employee_id, args[p].attendance_date) :
              a.status # args[p].status_value
        /\ Cardinality(attendance) = 1
        /\ nextAttendanceId = 2

OtherRecords(rows, emp, d) == {a \in rows : ~(a.employee_id = emp /\ a.date = d)}

\* C15: every statement of a mark leaves the employees and every record of another
\* (employee, date) as they were; the insert adds exactly one record, the update
\* changes the number of records by zero, no other statement of a mark writes.
C15_MarkFrame ==
    [][\A p \in Procs :
        (args'[p].op = "mark_attendance" /\ pc'[p] # pc[p]) =>
            LET emp == args'[p].employee_id
                d == args'[p].attendance_date
            IN
            /\ employees' = employees
            /\ OtherRecords(attendance', emp, d) = OtherRecords(attendance, emp, d)
            /\ (pc[p] = "ma_insert" /\ pc'[p] = "ma_refresh") =>
                  Cardinality(attendance') = Cardinality(attendance) + 1
            /\ pc[p] = "ma_update" => Cardinality(attendance') = Cardinality(attendance)
            /\ ~(pc[p] = "ma_insert" /\ pc'[p] = "ma_refresh") /\ pc[p] # "ma_update"
                  => attendance' = attendance
    ]_vars

\* C15 witness: a mark has inserted a new record for an employee who already
\* had a record for another date, and that other record is still there.
C15_Witness ==
    \E p \in Procs :
        /\ Mark(p) /\ pc[p] = "ma_refresh" /\ loc[p].attendance # 0
        /\ \E a, b \in attendance :
              /\ a.id = loc[p].attendance
              /\ a.employee_id = args[p].employee_id /\ a.date = args[p].attendance_date
              /\ b.employee_id = a.employee_id /\ b.date # a.date
              /\ b.status # a.status
====
